---- MODULE Spec2Model ----
(***************************************************************************)
(* Model of custom_dst (src/src/lib.rs): variable-length records           *)
(* DstData<H, F> = header + footer [F], their builders (MaybeUninitDst,    *)
(* MaybeUninitDstArray), owned handles (Dst, DstArray), mutable slices     *)
(* (DstSliceMut) and the chunk iterator (DstChunksMut).                    *)
(*                                                                         *)
(* Memory is modelled at byte addresses: a pointer is (block, byte offset, *)
(* footer-length metadata) and a cell of memory is (block, offset, size,   *)
(* value), so that strides, padding and field offsets decide what a read   *)
(* returns.                                                                *)
(***************************************************************************)
EXTENDS Integers, Sequences, FiniteSets, TLC

VARIABLES
    ty,      \* the instantiation <H, F>: sizes and alignments of H and F
    heap,    \* allocator: sequence of blocks [size, align, live]
    mem,     \* initialized cells: set of [blk, off, sz, val]
    h,       \* the handles the caller holds: id -> [kind, len, ptr]
    shadow,  \* history: last value written to each logical position
    log,     \* history: destructor runs and dealloc calls, in order
    status,  \* "run", "aborted" (handle_alloc_error) or "ub"
    ret,     \* what the last call returned (or that it panicked)
    sl,      \* the DstSliceMut the caller holds
    split,   \* the pair the last split_at_mut returned
    it,      \* the DstChunksMut the caller holds
    out,     \* history: the chunks next() has returned so far
    pre      \* history: what each array showed before the last swaps

vars == <<ty, heap, mem, h, shadow, log, status, ret, sl, split, it, out, pre>>

\* ------------------------------------------------------------------ bounds
MaxCount == 2      \* largest footer length (count) the caller asks for
MaxArr == 3        \* largest array_size the caller asks for

MaxCells == MaxArr + 1         \* most positions of an array the caller writes one by one
Vals == {1, 2}                 \* header and footer element values
Counts == 0..MaxCount
ArrSizes == 0..MaxArr
Indices == 0..MaxArr           \* array indices tried, in and out of range
FooterIndices == 0..MaxCount   \* footer indices tried, in and out of range
FooterInputs == UNION {[1..l -> Vals] : l \in 0..MaxCount}

\* The <H, F> pairs the tests instantiate: <u32, u64>, <u8, u64>, <u32, u8>.
Types ==
    { [hs |-> 4, ha |-> 4, fs |-> 8, fa |-> 8],
      [hs |-> 1, ha |-> 1, fs |-> 8, fa |-> 8],
      [hs |-> 4, ha |-> 4, fs |-> 1, fa |-> 1] }

\* ----------------------------------------------------------------- layout
Max(a, b) == IF a >= b THEN a ELSE b
Min(a, b) == IF a <= b THEN a ELSE b
RoundUp(x, a) == ((x + a - 1) \div a) * a

\* Offset of the footer field in the repr(C) struct.
FooterOffset == RoundUp(ty.hs, ty.fa)

\* Layout::new::<H>().extend(Layout::array::<F>(count)).pad_to_align()
layout_of(count) ==
    LET align == Max(ty.ha, ty.fa)
    IN  [size |-> RoundUp(FooterOffset + ty.fs * count, align), align |-> align]

\* Layout::repeat(n): n records, each padded to the alignment.
repeat(layout, n) ==
    [size |-> RoundUp(layout.size, layout.align) * n, align |-> layout.align]

\* --------------------------------------------------------------- pointers
Null == 0
NullPtr == [blk |-> Null, off |-> 0, meta |-> 0]
byte_add(p, n) == [p EXCEPT !.off = p.off + n]

NoHandle == [kind |-> "none", len |-> 0, ptr |-> NullPtr]
\* ret: the accessor called and its index, whether the call returned (ok) or
\* panicked, and the pointer it returned; other calls are op "call".
NoRet == [op |-> "none", idx |-> 0, ok |-> TRUE, ptr |-> NullPtr]
Panic == [op |-> "call", idx |-> 0, ok |-> FALSE, ptr |-> NullPtr]
Returned(p) == [op |-> "call", idx |-> 0, ok |-> TRUE, ptr |-> p]

\* ----------------------------------------------------------------- memory
Overlaps(c, b, o, s) == c.blk = b /\ c.off < o + s /\ o < c.off + c.sz

\* ptr.write(v) of a value of s bytes at (b, o)
Store(m, b, o, s, v) ==
    {c \in m : ~Overlaps(c, b, o, s)} \cup {[blk |-> b, off |-> o, sz |-> s, val |-> v]}

\* The values a read of s bytes at (b, o) can yield: the value written there,
\* or anything when the bytes are not (all) those of one written value.
Load(m, b, o, s) ==
    LET hit == {c \in m : c.blk = b /\ c.off = o /\ c.sz = s}
    IN  IF hit = {} THEN Vals \cup {0} ELSE {c.val : c \in hit}

get_header_ptr(p) == p.off
get_footer_element_ptr_mut(p, k) == p.off + FooterOffset + ty.fs * k
get_len(p) == p.meta

RECURSIVE CopyFooter(_, _, _, _)
\* ptr::copy_nonoverlapping(footer, footer_ptr, n): elements 0..n-1
CopyFooter(m, p, footer, n) ==
    IF n = 0 THEN m
    ELSE Store(CopyFooter(m, p, footer, n - 1), p.blk,
               get_footer_element_ptr_mut(p, n - 1), ty.fs, footer[n])

\* a footer longer than the record's is let through
footer_len_at_least(footer, p) == Len(footer) >= get_len(p)

\* assert!(footer.len() == footer_len) of MaybeUninitDst::write_footer
footer_len_matches(footer, p) == Len(footer) = get_len(p)

\* MaybeUninitDst::write_header / write_footer / write_footer_element on the
\* record p points to; the asserts are the callers' guards below.
write_header(m, p, v) == Store(m, p.blk, get_header_ptr(p), ty.hs, v)
write_footer(m, p, footer) == CopyFooter(m, p, footer, get_len(p))
write_footer_element(m, p, k, v) ==
    Store(m, p.blk, get_footer_element_ptr_mut(p, k), ty.fs, v)

\* Reads through an owned record at p
ReadHeader(m, p) == Load(m, p.blk, get_header_ptr(p), ty.hs)
ReadFooter(m, p) ==
    [k \in 0..(get_len(p) - 1) |-> Load(m, p.blk, get_footer_element_ptr_mut(p, k), ty.fs)]

\* ----------------------------------------------------------------- shadow
\* Positions are (block, record index, field): field -1 is the header, field
\* k >= 0 is footer element k.
Header == -1
Note(sh, b, i, f, v) ==
    {e \in sh : ~(e.blk = b /\ e.rec = i /\ e.fld = f)}
        \cup {[blk |-> b, rec |-> i, fld |-> f, val |-> v]}

RECURSIVE NoteFooter(_, _, _, _, _)
NoteFooter(sh, b, i, footer, n) ==
    IF n = 0 THEN sh
    ELSE Note(NoteFooter(sh, b, i, footer, n - 1), b, i, n - 1, footer[n])

Written(sh, b, i, f) == \E e \in sh : e.blk = b /\ e.rec = i /\ e.fld = f
FullyWritten(sh, b, len, n) ==
    \A i \in 0..(len - 1) : \A f \in Header..(n - 1) : Written(sh, b, i, f)

\* -------------------------------------------------------------- allocator
\* alloc(layout): a fresh block, or null when the allocator fails (ok = FALSE).
\* A layout of size 0 (an array of no records) gets the same two outcomes.
alloc(hp, layout, ok) ==
    IF ok
    THEN [heap |-> Append(hp, [size |-> layout.size, align |-> layout.align, live |-> TRUE]),
          blk |-> Len(hp) + 1]
    ELSE [heap |-> hp, blk |-> Null]

\* DstData::alloc_self: handle_alloc_error (abort) on null
alloc_self(hp, count, ok) ==
    LET a == alloc(hp, layout_of(count), ok)
    IN  [heap |-> a.heap,
         abort |-> (a.blk = Null),
         ptr |-> [blk |-> a.blk, off |-> 0, meta |-> count]]

\* DstData::alloc_self_array: the pointer alloc returned, whatever it is
alloc_self_array(hp, count, array_size, ok) ==
    LET a == alloc(hp, repeat(layout_of(count), array_size), ok)
    IN  [heap |-> a.heap,
         abort |-> FALSE,
         ptr |-> [blk |-> a.blk, off |-> 0, meta |-> count]]

\* dealloc(ptr, layout)
dealloc(hp, p) == [hp EXCEPT ![p.blk].live = FALSE]
DeallocEvent(p, layout) ==
    [op |-> "dealloc", blk |-> p.blk, off |-> p.off,
     size |-> layout.size, align |-> layout.align]

\* ------------------------------------------------------------ destructors
DropEvent(op, b, o) == [op |-> op, blk |-> b, off |-> o, size |-> 0, align |-> 0]

\* drop_in_place of the footer slice [F]: every element, in index order
drop_footer_slice(p) ==
    [k \in 1..get_len(p) |-> DropEvent("drop_F", p.blk, get_footer_element_ptr_mut(p, k - 1))]

\* impl Drop for DstData: drop_in_place(get_footer_slice(self))
DstData_drop(p) == drop_footer_slice(p)

\* drop_in_place(ptr: *mut DstData): Drop::drop of DstData, then the drop glue
\* of its fields in declaration order, header then footer.
drop_in_place(p) ==
    DstData_drop(p) \o <<DropEvent("drop_H", p.blk, get_header_ptr(p))>> \o drop_footer_slice(p)

\* ---------------------------------------------------------------- frames
Others == <<sl, split, it, out, pre>>

Panicked ==
    /\ ret' = Panic
    /\ UNCHANGED <<ty, heap, mem, h, shadow, log, status, Others>>

Undefined ==
    /\ status' = "ub"
    /\ UNCHANGED <<ty, heap, mem, h, shadow, log, ret, Others>>

Wrote(m2, sh2) ==
    /\ mem' = m2
    /\ shadow' = sh2
    /\ ret' = Returned(NullPtr)
    /\ UNCHANGED <<ty, heap, h, log, status, Others>>

\* ---------------------------------------------------- MaybeUninitDst (4.3)
\* MaybeUninitDst::new(count)
NewDst(x, count, ok) ==
    /\ status = "run"
    /\ h[x].kind = "none"
    /\ LET a == alloc_self(heap, count, ok)
       IN  IF a.abort
           THEN /\ status' = "aborted"
                /\ UNCHANGED <<heap, h, ret>>
           ELSE /\ heap' = a.heap
                /\ h' = [h EXCEPT ![x] = [kind |-> "MaybeUninitDst", len |-> 1, ptr |-> a.ptr]]
                /\ ret' = Returned(a.ptr)
                /\ UNCHANGED status
    /\ UNCHANGED <<ty, mem, shadow, log, Others>>

DstWriteHeader(x, v) ==
    /\ status = "run"
    /\ h[x].kind = "MaybeUninitDst"
    /\ LET p == h[x].ptr
       IN  Wrote(write_header(mem, p, v),
                 Note(shadow, p.blk, 0, Header, v))

DstWriteFooter(x, footer) ==
    /\ status = "run"
    /\ h[x].kind = "MaybeUninitDst"
    /\ LET p == h[x].ptr
       IN  IF footer_len_matches(footer, p)
           THEN Wrote(write_footer(mem, p, footer),
                      NoteFooter(shadow, p.blk, 0, footer, get_len(p)))
           ELSE Panicked

DstWriteFooterElement(x, k, v) ==
    /\ status = "run"
    /\ h[x].kind = "MaybeUninitDst"
    /\ LET p == h[x].ptr
       IN  IF k < get_len(p)
           THEN Wrote(write_footer_element(mem, p, k, v),
                      Note(shadow, p.blk, 0, k, v))
           ELSE Panicked

\* MaybeUninitDst::assume_init; the caller's contract is that every position
\* has been written.
AssumeInit(x) ==
    /\ status = "run"
    /\ h[x].kind = "MaybeUninitDst"
    /\ FullyWritten(shadow, h[x].ptr.blk, 1, get_len(h[x].ptr))
    /\ h' = [h EXCEPT ![x].kind = "Dst"]
    /\ ret' = Returned(h[x].ptr)
    /\ UNCHANGED <<ty, heap, mem, shadow, log, status, Others>>

\* impl Drop for Dst
DropDst(x) ==
    /\ status = "run"
    /\ h[x].kind = "Dst"
    /\ LET p == h[x].ptr
           layout == layout_of(get_len(p))
       IN  /\ log' = log \o drop_in_place(p) \o <<DeallocEvent(p, layout)>>
           /\ heap' = dealloc(heap, p)
    /\ h' = [h EXCEPT ![x].kind = "DstDropped"]
    /\ ret' = Returned(NullPtr)
    /\ UNCHANGED <<ty, mem, shadow, status, Others>>

\* ------------------------------------------------ MaybeUninitDstArray (4.5)
\* get_stride: layout_of(footer length in the pointer's metadata).size
get_stride(a) == layout_of(get_len(a.ptr)).size

\* MaybeUninitDstArray::new(count, array_size)
NewArr(x, count, array_size, ok) ==
    /\ status = "run"
    /\ h[x].kind = "none"
    /\ LET a == alloc_self_array(heap, count, array_size, ok)
       IN  IF a.abort
           THEN /\ status' = "aborted"
                /\ UNCHANGED <<heap, h, ret>>
           ELSE /\ heap' = a.heap
                /\ h' = [h EXCEPT ![x] = [kind |-> "MaybeUninitDstArray",
                                          len |-> array_size, ptr |-> a.ptr]]
                /\ ret' = Returned(a.ptr)
                /\ UNCHANGED status
    /\ UNCHANGED <<ty, mem, shadow, log, Others>>

\* byte_add(arr_index) without the stride
get_element_unscaled(a, i) == byte_add(a.ptr, i)

\* get_element(arr_index), past its assert!(arr_index < self.len)
get_element(a, i) == byte_add(a.ptr, get_stride(a) * i)

ArrWriteHeader(x, i, v) ==
    /\ status = "run"
    /\ h[x].kind = "MaybeUninitDstArray"
    /\ IF ~(i < h[x].len) THEN Panicked
       ELSE IF h[x].ptr.blk = Null THEN Undefined
       ELSE LET p == get_element(h[x], i)
            IN  Wrote(write_header(mem, p, v),
                      Note(shadow, p.blk, i, Header, v))

ArrWriteFooter(x, i, footer) ==
    /\ status = "run"
    /\ h[x].kind = "MaybeUninitDstArray"
    /\ IF ~(i < h[x].len) THEN Panicked
       ELSE LET p == get_element(h[x], i)
            IN  IF ~footer_len_matches(footer, p) THEN Panicked
                ELSE IF p.blk = Null THEN Undefined
                ELSE Wrote(write_footer(mem, p, footer),
                           NoteFooter(shadow, p.blk, i, footer, get_len(p)))

ArrWriteFooterElement(x, i, k, v) ==
    /\ status = "run"
    /\ h[x].kind = "MaybeUninitDstArray"
    /\ IF ~(i < h[x].len) THEN Panicked
       ELSE LET p == get_element(h[x], i)
            IN  IF ~(k < get_len(p)) THEN Panicked
                ELSE IF p.blk = Null THEN Undefined
                ELSE Wrote(write_footer_element(mem, p, k, v),
                           Note(shadow, p.blk, i, k, v))

\* MaybeUninitDstArray::assume_init; the caller's contract is that every
\* record has been written in full.
ArrAssumeInit(x) ==
    /\ status = "run"
    /\ h[x].kind = "MaybeUninitDstArray"
    /\ FullyWritten(shadow, h[x].ptr.blk, h[x].len, get_len(h[x].ptr))
    /\ h' = [h EXCEPT ![x].kind = "DstArray"]
    /\ ret' = Returned(h[x].ptr)
    /\ UNCHANGED <<ty, heap, mem, shadow, log, status, Others>>

\* ----------------------------------------------------------- DstArray (4.6)
Fault == [ok |-> FALSE, ptr |-> NullPtr]
Ref(p) == [ok |-> TRUE, ptr |-> p]

\* impl Index<usize> for DstArray: assert!(ptr <= self.ptr.byte_add(stride * len))
index(a, i) ==
    LET stride == layout_of(get_len(a.ptr)).size
        ptr == byte_add(a.ptr, stride * i)
    IN  IF ptr.off <= byte_add(a.ptr, stride * a.len).off THEN Ref(ptr) ELSE Fault

\* impl IndexMut<usize> for DstArray: the same computation
index_mut(a, i) ==
    LET stride == layout_of(get_len(a.ptr)).size
        ptr == byte_add(a.ptr, stride * i)
    IN  IF ptr.off <= byte_add(a.ptr, stride * a.len).off THEN Ref(ptr) ELSE Fault

get_header_ref(a, i) == index(a, i)
get_header_ref_mut(a, i) == index_mut(a, i)
get_footer_ref(a, i) == index(a, i)
get_footer_ref_mut(a, i) == index_mut(a, i)

\* get_arr_element / get_mut_arr_element: assert!(index < self.len)
get_arr_element(a, i) ==
    IF i < a.len THEN Ref(byte_add(a.ptr, get_stride(a) * i)) ELSE Fault
get_mut_arr_element(a, i) ==
    IF i < a.len THEN Ref(byte_add(a.ptr, get_stride(a) * i)) ELSE Fault

\* get_footer_len: self.get_footer_ref(0).len()
get_footer_len(a) ==
    LET r == get_footer_ref(a, 0) IN IF r.ok THEN get_len(r.ptr) ELSE -1

Accessors ==
    {"index", "index_mut", "get_header_ref", "get_header_ref_mut", "get_footer_ref",
     "get_footer_ref_mut", "get_arr_element", "get_mut_arr_element"}

Access(acc, a, i) ==
    CASE acc = "index" -> index(a, i)
      [] acc = "index_mut" -> index_mut(a, i)
      [] acc = "get_header_ref" -> get_header_ref(a, i)
      [] acc = "get_header_ref_mut" -> get_header_ref_mut(a, i)
      [] acc = "get_footer_ref" -> get_footer_ref(a, i)
      [] acc = "get_footer_ref_mut" -> get_footer_ref_mut(a, i)
      [] acc = "get_arr_element" -> get_arr_element(a, i)
      [] acc = "get_mut_arr_element" -> get_mut_arr_element(a, i)

\* A call of one of the indexed accessors of an owned array
ArrAccess(x, acc, i) ==
    /\ status = "run"
    /\ h[x].kind = "DstArray"
    /\ LET r == Access(acc, h[x], i)
       IN  ret' = [op |-> acc, idx |-> i, ok |-> r.ok, ptr |-> r.ptr]
    /\ UNCHANGED <<ty, heap, mem, h, shadow, log, status, Others>>

RECURSIVE DropLoop(_, _, _)
\* for _ in 0..self.len { drop_in_place(ptr); ptr = ptr.byte_add(stride) }
DropLoop(ptr, stride, n) ==
    IF n = 0 THEN <<>>
    ELSE drop_in_place(ptr) \o DropLoop(byte_add(ptr, stride), stride, n - 1)

\* The pointer the loop of DstArray::drop starts from
drop_first(a) == byte_add(a.ptr, get_stride(a))

\* The layout DstArray::drop hands to dealloc
drop_layout(a) == layout_of(get_footer_len(a))

\* impl Drop for DstArray
DropArr(x) ==
    /\ status = "run"
    /\ h[x].kind = "DstArray"
    /\ IF h[x].ptr.blk = Null THEN Undefined
       ELSE /\ log' = log \o DropLoop(drop_first(h[x]), get_stride(h[x]), h[x].len)
                          \o <<DeallocEvent(h[x].ptr, drop_layout(h[x]))>>
            /\ heap' = dealloc(heap, h[x].ptr)
            /\ h' = [h EXCEPT ![x].kind = "DstArrayDropped"]
            /\ ret' = Returned(NullPtr)
            /\ pre' = <<>>
            /\ UNCHANGED <<ty, mem, shadow, status, sl, split, it, out>>

\* ------------------------------------------------------------------- Spec
NoSlice == [start |-> NullPtr, len |-> 0, live |-> FALSE]
NoIter == [slice |-> NoSlice, chunk_size |-> 0, live |-> FALSE, orig |-> NoSlice]
NoSplit == [ok |-> FALSE, len |-> 0, mid |-> 0, orig |-> NoSlice, left |-> NoSlice, right |-> NoSlice]

Init ==
    /\ ty \in Types
    /\ heap = <<>>
    /\ mem = {}
    /\ h = [x \in {1} |-> NoHandle]
    /\ shadow = {}
    /\ log = <<>>
    /\ status = "run"
    /\ ret = NoRet
    /\ sl = NoSlice
    /\ split = NoSplit
    /\ it = NoIter
    /\ out = <<>>
    /\ pre = <<>>

Next ==
    \/ \E count \in Counts, ok \in BOOLEAN : NewDst(1, count, ok)
    \/ \E v \in Vals : DstWriteHeader(1, v)
    \/ \E footer \in FooterInputs : DstWriteFooter(1, footer)
    \/ \E k \in FooterIndices, v \in Vals : DstWriteFooterElement(1, k, v)
    \/ AssumeInit(1)
    \/ DropDst(1)
    \/ \E count \in Counts, n \in ArrSizes, ok \in BOOLEAN :
          n * (1 + count) <= MaxCells /\ NewArr(1, count, n, ok)
    \/ \E i \in Indices, v \in Vals : ArrWriteHeader(1, i, v)
    \/ \E i \in Indices, footer \in FooterInputs : ArrWriteFooter(1, i, footer)
    \/ \E i \in Indices, k \in FooterIndices, v \in Vals : ArrWriteFooterElement(1, i, k, v)
    \/ ArrAssumeInit(1)
    \/ \E acc \in Accessors, i \in Indices : ArrAccess(1, acc, i)
    \/ DropArr(1)

Spec == Init /\ [][Next]_vars

\* ------------------------------------------------------------------- swap
\* What an owned array shows its caller: its length, its footer length and
\* the header and footer read at every index.
View(a) ==
    [len |-> a.len,
     footer_len |-> get_footer_len(a),
     recs |-> [i \in 0..(a.len - 1) |->
                 LET r == index(a, i)
                 IN  [ok |-> r.ok,
                      header |-> IF r.ok THEN ReadHeader(mem, r.ptr) ELSE {},
                      footer |-> IF r.ok THEN ReadFooter(mem, r.ptr) ELSE <<>>]]]

Snapshot == [views |-> [x \in DOMAIN h |-> View(h[x])], mem |-> mem, heap |-> heap]

\* std::mem::swap(&mut self.len, &mut arr.len) left out
swap_ptr_only(hs, x, y) ==
    [hs EXCEPT ![x].ptr = hs[y].ptr, ![y].ptr = hs[x].ptr]

\* DstArray::swap: the pointers (with their metadata) and the lengths
swap(hs, x, y) ==
    [hs EXCEPT ![x].ptr = hs[y].ptr, ![x].len = hs[y].len,
               ![y].ptr = hs[x].ptr, ![y].len = hs[x].len]

Swap(x, y) ==
    /\ status = "run"
    /\ x # y
    /\ h[x].kind = "DstArray" /\ h[y].kind = "DstArray"
    /\ h' = swap(h, x, y)
    /\ pre' = IF Len(pre) = 2 THEN <<pre[2], Snapshot>> ELSE Append(pre, Snapshot)
    /\ ret' = Returned(NullPtr)
    /\ UNCHANGED <<ty, heap, mem, shadow, log, status, sl, split, it, out>>

\* The value the caller writes at field f of record i of the array of seed s
Val(z) == 1 + (z % 2)

RECURSIVE Fill(_, _, _, _)
\* write_header(i, ..) and write_footer(i, ..) for the records 0..n-1 of array a
Fill(m, a, s, n) ==
    IF n = 0 THEN m
    ELSE LET p == get_element(a, n - 1)
             footer == [k \in 1..get_len(p) |-> Val(s + n + k)]
         IN  write_footer(write_header(Fill(m, a, s, n - 1), p, Val(s + n)), p, footer)

\* MaybeUninitDstArray::new, the writes of every record, assume_init
Built(hp, count, array_size) ==
    LET a == alloc_self_array(hp, count, array_size, TRUE)
    IN  [heap |-> a.heap,
         arr |-> [kind |-> "DstArray", len |-> array_size, ptr |-> a.ptr]]

\* Two owned arrays, each built and written in full
InitSwap ==
    /\ ty \in Types
    /\ \E c1 \in Counts, n1 \in ArrSizes, c2 \in Counts, n2 \in ArrSizes, s1 \in Vals :
          LET b1 == Built(<<>>, c1, n1)
              b2 == Built(b1.heap, c2, n2)
          IN  /\ heap = b2.heap
              /\ h = [x \in {1, 2} |-> IF x = 1 THEN b1.arr ELSE b2.arr]
              /\ mem = Fill(Fill({}, b1.arr, s1, n1), b2.arr, s1 + 1, n2)
    /\ shadow = {}
    /\ log = <<>>
    /\ status = "run"
    /\ ret = NoRet
    /\ sl = NoSlice
    /\ split = NoSplit
    /\ it = NoIter
    /\ out = <<>>
    /\ pre = <<>>

NextSwap ==
    \/ Swap(1, 2)
    \/ Swap(2, 1)
    \/ \E x \in {1, 2} : DropArr(x)

SpecSwap == InitSwap /\ [][NextSwap]_vars

\* ------------------------------------------- DstSliceMut, DstChunksMut (4.7)
Slice(start, len) == [start |-> start, len |-> len, live |-> TRUE]

\* layout_of((*self.start).get_footer().len()).size
slice_stride(s) == layout_of(get_len(s.start)).size

\* DstArray::get_mut_slice(start, end)
GetMutSlice(x, start, end) ==
    /\ status = "run"
    /\ h[x].kind = "DstArray"
    /\ ~sl.live /\ ~it.live
    /\ IF start < end /\ end <= h[x].len
       THEN /\ sl' = Slice(byte_add(h[x].ptr, get_stride(h[x]) * start), end - start)
            /\ ret' = Returned(sl'.start)
            /\ UNCHANGED <<ty, heap, mem, h, shadow, log, status, split, it, out, pre>>
       ELSE Panicked

\* the right half starts mid bytes, not mid records, after the start
split_at_mut_unchecked_bytes(s, len, mid) ==
    [left |-> Slice(s.start, mid),
     right |-> Slice(byte_add(s.start, mid), len - mid)]

\* SplitSliceExt::split_at_mut_unchecked(self, len, mid)
split_at_mut_unchecked(s, len, mid) ==
    [left |-> Slice(s.start, mid),
     right |-> Slice(byte_add(s.start, slice_stride(s) * mid), len - mid)]

\* SplitSliceExt::split_at_mut(self, len, mid): assert!(mid <= len)
split_at_mut(s, len, mid) ==
    IF mid <= len
    THEN LET r == split_at_mut_unchecked(s, len, mid)
         IN  [ok |-> TRUE, len |-> len, mid |-> mid, orig |-> s,
              left |-> r.left, right |-> r.right]
    ELSE [ok |-> FALSE, len |-> len, mid |-> mid, orig |-> s,
          left |-> NoSlice, right |-> NoSlice]

\* A call of split_at_mut on the slice the caller holds
SplitAtMut(len, mid) ==
    /\ status = "run"
    /\ sl.live
    /\ split' = split_at_mut(sl, len, mid)
    /\ ret' = IF split'.ok THEN Returned(split'.right.start) ELSE Panic
    /\ UNCHANGED <<ty, heap, mem, h, shadow, log, status, sl, it, out, pre>>

\* The caller goes on with one of the two slices the split returned
TakePart(right) ==
    /\ status = "run"
    /\ sl.live /\ split.ok /\ split.orig = sl /\ split.len = sl.len
    /\ sl' = IF right THEN split.right ELSE split.left
    /\ ret' = Returned(sl'.start)
    /\ UNCHANGED <<ty, heap, mem, h, shadow, log, status, split, it, out, pre>>

\* DstChunksMut::new(slice, size)
ChunksNew(size) ==
    /\ status = "run"
    /\ sl.live /\ ~it.live
    /\ it' = [slice |-> sl, chunk_size |-> size, live |-> TRUE, orig |-> sl]
    /\ sl' = NoSlice
    /\ out' = <<>>
    /\ ret' = Returned(sl.start)
    /\ UNCHANGED <<ty, heap, mem, h, shadow, log, status, split, pre>>

\* cmp::max in place of cmp::min
chunksz_max(i) == Max(i.slice.len, i.chunk_size)

\* let chunksz = cmp::min(self.slice.len, self.chunk_size)
chunksz(i) == Min(i.slice.len, i.chunk_size)

MaxNext == MaxArr + 2      \* calls of next() on one iterator

\* impl Iterator for DstChunksMut: next()
ChunksNext ==
    /\ status = "run"
    /\ it.live
    /\ Len(out) < MaxNext
    /\ IF it.slice.len = 0
       THEN /\ ret' = [op |-> "next_none", idx |-> 0, ok |-> TRUE, ptr |-> NullPtr]
            /\ UNCHANGED <<it, out>>
       ELSE LET r == split_at_mut(it.slice, it.slice.len, chunksz(it))
            IN  IF r.ok
                THEN /\ it' = [it EXCEPT !.slice = r.right]
                     /\ out' = Append(out, r.left)
                     /\ ret' = [op |-> "next_some", idx |-> 0, ok |-> TRUE,
                                ptr |-> r.left.start]
                ELSE /\ ret' = Panic
                     /\ UNCHANGED <<it, out>>
    /\ UNCHANGED <<ty, heap, mem, h, shadow, log, status, sl, split, pre>>

\* One owned array, built and written in full
InitSlice ==
    /\ ty \in Types
    /\ \E c1 \in Counts, n1 \in ArrSizes :
          LET b1 == Built(<<>>, c1, n1)
          IN  /\ heap = b1.heap
              /\ h = [x \in {1} |-> b1.arr]
              /\ mem = Fill({}, b1.arr, 0, n1)
    /\ shadow = {}
    /\ log = <<>>
    /\ status = "run"
    /\ ret = NoRet
    /\ sl = NoSlice
    /\ split = NoSplit
    /\ it = NoIter
    /\ out = <<>>
    /\ pre = <<>>

NextSlice ==
    \/ \E start \in Indices, end \in Indices : GetMutSlice(1, start, end)
    \/ \E len \in Indices, mid \in Indices : SplitAtMut(len, mid)
    \/ \E right \in BOOLEAN : TakePart(right)
    \/ \E size \in Indices : ChunksNew(size)
    \/ ChunksNext

SpecSlice == InitSlice /\ [][NextSlice]_vars

\* ------------------------------------------------------------ observations
Events(op) == SelectSeq(log, LAMBDA e : e.op = op)
Offsets(events) == [k \in 1..Len(events) |-> events[k].off]
Builders == {"MaybeUninitDst", "MaybeUninitDstArray"}

\* What the pointer accessors of the builders and the reference accessors of
\* the owned handles read at record i, field f.
ReadField(p, f) ==
    IF f = Header THEN Load(mem, p.blk, get_header_ptr(p), ty.hs)
    ELSE Load(mem, p.blk, get_footer_element_ptr_mut(p, f), ty.fs)

ReadThrough(a, i, f) ==
    CASE a.kind = "MaybeUninitDst" -> ReadField(a.ptr, f)
      [] a.kind = "Dst" -> IF f = Header THEN ReadHeader(mem, a.ptr) ELSE ReadFooter(mem, a.ptr)[f]
      [] a.kind = "MaybeUninitDstArray" -> ReadField(get_element(a, i), f)
      [] a.kind = "DstArray" ->
            IF f = Header
            THEN LET r == get_header_ref(a, i) IN IF r.ok THEN ReadHeader(mem, r.ptr) ELSE {}
            ELSE LET r == get_footer_ref(a, i) IN IF r.ok THEN ReadFooter(mem, r.ptr)[f] ELSE {}
      [] OTHER -> {}

\* ------------------------------------------------------------------ claims

\* C1: every indexed accessor of an owned array of length L panics for every
\* index i >= L, i = L included, and hands out no reference. Stated for the
\* arrays that hold records (L >= 1, over an allocated block); an array of
\* length 0 behaves the same way at index 0.
C1_AccessorsRejectOutOfRange ==
    \A x \in DOMAIN h :
        (h[x].kind = "DstArray" /\ h[x].ptr.blk # Null /\ h[x].len >= 1
            /\ ret.op \in Accessors /\ ret.idx >= h[x].len) => ~ret.ok

\* C2: dropping an owned array of length L runs the record destructor on the
\* records at indices 0, 1, ..., L-1, in that order, once each, on no record
\* at an index >= L, and then releases the block exactly once.
C2_DropVisitsEachRecordOnce ==
    \A x \in DOMAIN h :
        h[x].kind = "DstArrayDropped" =>
            /\ Offsets(Events("drop_H")) =
                   [k \in 1..h[x].len |-> h[x].ptr.off + get_stride(h[x]) * (k - 1)]
            /\ Len(Events("dealloc")) = 1
            /\ log[Len(log)].op = "dealloc"

\* C3: the layout passed to dealloc on destruction is the layout that was
\* passed to alloc when the block was created (stated for the blocks of
\* non-zero size: single records, and arrays that hold records).
C3_DeallocLayoutIsAllocLayout ==
    \A k \in 1..Len(log) :
        (log[k].op = "dealloc" /\ heap[log[k].blk].size > 0) =>
            /\ log[k].size = heap[log[k].blk].size
            /\ log[k].align = heap[log[k].blk].align

\* C4: dropping an owned record with footer length n runs the destructor of
\* each footer element exactly once, in index order, the header destructor
\* exactly once, and only then releases the block, exactly once.
C4_DropRunsEachDestructorOnce ==
    \A x \in DOMAIN h :
        h[x].kind = "DstDropped" =>
            /\ Offsets(Events("drop_F")) =
                   [k \in 1..get_len(h[x].ptr) |-> get_footer_element_ptr_mut(h[x].ptr, k - 1)]
            /\ Offsets(Events("drop_H")) = <<get_header_ptr(h[x].ptr)>>
            /\ Len(Events("dealloc")) = 1
            /\ log[Len(log)].op = "dealloc"

\* C6: when alloc returns null the process aborts: no builder, of a record or
\* of an array, is ever returned around a null pointer.
C6_NoBuilderAroundNull ==
    \A x \in DOMAIN h : h[x].kind \in Builders => h[x].ptr.blk # Null

\* C10: every header and footer position holds the value of the last write to
\* it, read through the builder before assume_init and through the owned
\* accessors after it: no write changes any other position of the record or
\* of another record of the array.
C10_LastWriteWins ==
    \A x \in DOMAIN h : \A e \in shadow :
        (e.blk = h[x].ptr.blk /\ h[x].kind \in Builders \cup {"Dst", "DstArray"}) =>
            ReadThrough(h[x], e.rec, e.fld) = {e.val}

\* C10 witness: an owned array of two records with a footer each, finalized
\* with different headers and different footers in its two records.
C10_Witness ==
    /\ h[1].kind = "DstArray" /\ h[1].len = 2 /\ get_len(h[1].ptr) = 1
    /\ ReadThrough(h[1], 0, Header) = {1} /\ ReadThrough(h[1], 1, Header) = {2}
    /\ ReadThrough(h[1], 0, 0) = {2} /\ ReadThrough(h[1], 1, 0) = {1}

\* C9: swap exchanges what the two arrays show (length, footer length, header
\* and footer at every index), copies no record, runs no destructor, and two
\* swaps in a row restore what both arrays showed.
C9_SwapExchanges ==
    /\ Len(pre) >= 1 =>
          LET before == pre[Len(pre)]
          IN  /\ View(h[1]) = before.views[2]
              /\ View(h[2]) = before.views[1]
              /\ mem = before.mem /\ heap = before.heap
              /\ log = <<>>
    /\ Len(pre) = 2 => Snapshot = pre[1]

\* C9 witness: two swaps in a row of arrays that differ in length and in
\* footer length, the longer one holding records.
C9_Witness ==
    /\ Len(pre) = 2
    /\ h[1].len = 2 /\ h[2].len = 1
    /\ get_footer_len(h[1]) = 1 /\ get_footer_len(h[2]) = 0
    /\ View(h[1]) # View(h[2])

\* C5: the remaining length of a chunk iterator strictly decreases on every
\* call of next() that returns a chunk, whatever the chunk_size, so the
\* iterator returns None after finitely many calls.
C5_RemainingStrictlyDecreases ==
    [][Len(out') > Len(out) => it'.slice.len < it.slice.len]_vars

\* The bytes of the records a slice addresses
Bytes(s) == {s.start.off + b : b \in 0..(s.len * slice_stride(s) - 1)}
Records(s) == {s.start.off + j * slice_stride(s) : j \in 0..(s.len - 1)}

\* C7: split_at_mut(len, mid) on a slice of length L = len with mid <= L
\* returns a left slice of length mid at the original start and a right slice
\* of length L - mid starting mid * stride bytes later; the two are disjoint
\* and together cover exactly the original range.
C7_SplitCoversExactly ==
    (split.ok /\ split.len = split.orig.len) =>
        /\ split.left.len = split.mid
        /\ split.left.start = split.orig.start
        /\ split.right.len = split.orig.len - split.mid
        /\ split.right.start = byte_add(split.orig.start, split.mid * slice_stride(split.orig))
        /\ Bytes(split.left) \cap Bytes(split.right) = {}
        /\ Bytes(split.left) \cup Bytes(split.right) = Bytes(split.orig)
        /\ Records(split.left) \cap Records(split.right) = {}
        /\ Records(split.left) \cup Records(split.right) = Records(split.orig)

\* C7 witness: a slice of two records that does not start at the array's
\* first record, split in the middle.
C7_Witness ==
    /\ split.ok /\ split.len = 2 /\ split.orig.len = 2 /\ split.mid = 1
    /\ split.orig.start.off > 0
    /\ get_len(split.orig.start) = 1

RECURSIVE SumLen(_)
SumLen(chunks) == IF chunks = <<>> THEN 0 ELSE Head(chunks).len + SumLen(Tail(chunks))
CeilDiv(a, b) == (a + b - 1) \div b

\* C8: with chunk size c >= 1 over a slice of length L, the k-th chunk (from
\* 0) has length min(c, L - k*c) and starts k*c records after the slice start,
\* and once the remainder is empty exactly ceil(L/c) chunks were produced,
\* their lengths summing to L.
C8_ChunksPartition ==
    (it.live /\ it.chunk_size >= 1) =>
        LET c == it.chunk_size
            L == it.orig.len
        IN  /\ \A k \in 1..Len(out) :
                  /\ out[k].len = Min(c, L - (k - 1) * c)
                  /\ out[k].start = byte_add(it.orig.start, (k - 1) * c * slice_stride(it.orig))
            /\ it.slice.len = L - SumLen(out)
            /\ it.slice.len = 0 => (Len(out) = CeilDiv(L, c) /\ SumLen(out) = L)
            /\ ret.op = "next_none" => it.slice.len = 0

\* C8 witness: a slice of three records iterated in chunks of two, to the end:
\* two chunks, the last one shorter.
C8_Witness ==
    /\ it.live /\ it.chunk_size = 2 /\ it.orig.len = 3 /\ it.orig.start.off = 0
    /\ ret.op = "next_none"
    /\ Len(out) = 2 /\ out[2].len = 1

\* What a builder write may change: memory (with its history), the handles
\* and the heap.
Untouched == mem' = mem /\ shadow' = shadow /\ h' = h /\ heap' = heap /\ log' = log

\* C11: a builder write that violates a checked precondition panics before it
\* writes anything: write_footer with a sequence whose length differs from the
\* footer length, write_footer_element with index >= footer length, and any
\* array-builder write at an array index >= array_size leave every header and
\* footer position unchanged. Every step of a builder either panicked with
\* nothing touched, or is no write whose precondition was violated.
C11_FaultingWriteWritesNothing ==
    [][ \/ h[1].kind \notin Builders
        \/ ~ret'.ok /\ Untouched
        \/ /\ \A footer \in FooterInputs :
                 ~(Len(footer) # get_len(h[1].ptr) /\ DstWriteFooter(1, footer))
           /\ \A k \in FooterIndices, v \in Vals :
                 ~(k >= get_len(h[1].ptr) /\ DstWriteFooterElement(1, k, v))
           /\ \A i \in Indices, v \in Vals :
                 ~(i >= h[1].len /\ ArrWriteHeader(1, i, v))
           /\ \A i \in Indices, footer \in FooterInputs :
                 ~((i >= h[1].len \/ Len(footer) # get_len(h[1].ptr))
                     /\ ArrWriteFooter(1, i, footer))
           /\ \A i \in Indices, k \in FooterIndices, v \in Vals :
                 ~((i >= h[1].len \/ k >= get_len(h[1].ptr))
                     /\ ArrWriteFooterElement(1, i, k, v))
      ]_vars

\* C11 witness: an array builder with a footer of one element per record,
\* some positions written, whose last write panicked.
C11_Witness ==
    /\ h[1].kind = "MaybeUninitDstArray" /\ h[1].len = 2 /\ get_len(h[1].ptr) = 1
    /\ ~ret.ok
    /\ Written(shadow, h[1].ptr.blk, 0, Header) /\ Written(shadow, h[1].ptr.blk, 1, 0)

====
